---- MODULE Spec2Model ----
(***************************************************************************)
(* Model of sensor_daemon.reader.SensorDataReader (python/sensor_daemon/   *)
(* reader.py): the key codec, the two cursor scans, the aggregate query    *)
(* and the reader life cycle, over an ordered key-value store.             *)
(*                                                                         *)
(* Python integers are unbounded and Python floats are IEEE-754 doubles.   *)
(* Both are modelled exactly: an unbounded natural number is a big-endian  *)
(* sequence of 20-bit limbs without leading zeros, a non-negative double a *)
(* pair [m, e] standing for m * 2^e with m of at most 53 significant bits. *)
(* A datetime is the normalised timedelta (days, seconds, microseconds)    *)
(* between it and the epoch, which is what CPython computes first in       *)
(* datetime.timestamp() for an aware datetime.                             *)
(***************************************************************************)
EXTENDS Integers, Sequences, FiniteSets, TLC

(***************************************************************************)
(* Unbounded naturals: sequences of limbs, most significant limb first.    *)
(* A limb has LimbBits bits, so that a limb times a factor of up to 2047   *)
(* plus a carry stays below 2^31.                                          *)
(***************************************************************************)
LimbBits == 20
Base == 2^LimbBits

Zeros(n) == [i \in 1..n |-> 0]

\* x without its leading zero limbs
Norm(x) ==
    IF \A i \in 1..Len(x) : x[i] = 0 THEN <<>>
    ELSE SubSeq(x, CHOOSE i \in 1..Len(x) :
                       x[i] # 0 /\ \A j \in 1..(i - 1) : x[j] = 0, Len(x))

\* a natural below 2^31 as a limb sequence, and back
FromNat(n) == Norm(<<n \div Base, n % Base>>)
ToNat(x) == IF Len(x) = 0 THEN 0
            ELSE IF Len(x) = 1 THEN x[1]
            ELSE x[1] * Base + x[2]

\* the number of significant bits
BitLen(x) ==
    IF Len(x) = 0 THEN 0
    ELSE LimbBits * (Len(x) - 1)
         + (CHOOSE w \in 1..LimbBits : 2^(w - 1) <= x[1] /\ x[1] < 2^w)

\* bit j of x, counted from the least significant bit 0
Bit(x, j) ==
    IF j \div LimbBits >= Len(x) THEN 0
    ELSE (x[Len(x) - (j \div LimbBits)] \div 2^(j % LimbBits)) % 2

\* Every number met here is below 2^100: the multiplication and the division
\* are written out for five limbs, x padded with leading zeros.
Limbs5(x) == Zeros(5 - Len(x)) \o x

\* x * c + a for naturals c <= 2047 and a < Base
MulAdd(x, c, a) ==
    IF Len(x) = 0 THEN FromNat(a)
    ELSE LET l  == Limbs5(x)
             t5 == l[5] * c + a
             t4 == l[4] * c + t5 \div Base
             t3 == l[3] * c + t4 \div Base
             t2 == l[2] * c + t3 \div Base
             t1 == l[1] * c + t2 \div Base
         IN  Norm(<<t1 \div Base, t1 % Base, t2 % Base, t3 % Base, t4 % Base,
                    t5 % Base>>)

\* quotient and remainder of x by a natural d <= 2047
DivMod(x, d) ==
    IF Len(x) = 0 THEN [q |-> <<>>, r |-> 0]
    ELSE LET l  == Limbs5(x)
             t1 == l[1]
             t2 == (t1 % d) * Base + l[2]
             t3 == (t2 % d) * Base + l[3]
             t4 == (t3 % d) * Base + l[4]
             t5 == (t4 % d) * Base + l[5]
         IN  [q |-> Norm(<<t1 \div d, t2 \div d, t3 \div d, t4 \div d, t5 \div d>>),
              r |-> t5 % d]

\* x * 2^k
ShiftLeft(x, k) ==
    IF Len(x) = 0 THEN <<>>
    ELSE
    LET r == k % LimbBits
        n == Len(x)
    IN  Norm([j \in 1..(n + 1) |->
                (IF j >= 2 THEN (x[j - 1] % 2^(LimbBits - r)) * 2^r ELSE 0)
              + (IF j <= n THEN x[j] \div 2^(LimbBits - r) ELSE 0)]
             \o Zeros(k \div LimbBits))

\* floor(x / 2^k)
ShiftRight(x, k) ==
    LET r == k % LimbBits
        n == Len(x) - (k \div LimbBits)
    IN  IF Len(x) = 0 \/ n <= 0 THEN <<>>
        ELSE Norm([j \in 1..n |->
                     (IF j >= 2 THEN (x[j - 1] % 2^r) * 2^(LimbBits - r) ELSE 0)
                   + x[j] \div 2^r])

\* x mod 2^k
LowBits(x, k) ==
    LET n == Len(x) - (k \div LimbBits)
    IN  IF n <= 0 THEN x
        ELSE Norm(<<x[n] % 2^(k % LimbBits)>> \o SubSeq(x, n + 1, Len(x)))

\* x / 2^s rounded to the nearest integer, ties to even
RoundHalfEven(x, s) ==
    IF Len(x) = 0 \/ s = 0 THEN x
    ELSE IF Bit(x, s - 1) = 1 /\ (LowBits(x, s - 1) # <<>> \/ Bit(x, s) = 1)
         THEN MulAdd(ShiftRight(x, s), 1, 1)
         ELSE ShiftRight(x, s)

(***************************************************************************)
(* IEEE-754 double arithmetic on non-negative values, round to nearest,    *)
(* ties to even. The values met here are far from the subnormal and the    *)
(* overflow range.                                                         *)
(***************************************************************************)
MantissaBits == 53

\* the double nearest to p * 2^e
ToDouble(p, e) ==
    IF Len(p) = 0 \/ BitLen(p) <= MantissaBits THEN [m |-> p, e |-> e]
    ELSE [m |-> RoundHalfEven(p, BitLen(p) - MantissaBits),
          e |-> e + (BitLen(p) - MantissaBits)]

\* x * 1_000_000 + a and divmod(x, 1_000_000), in two steps of 1000
MulMillion(x, a) ==
    IF Len(x) = 0 THEN FromNat(a) ELSE MulAdd(MulAdd(x, 1000, 0), 1000, a)

DivMillion(x) ==
    LET lo == DivMod(x, 1000)
        hi == DivMod(lo.q, 1000)
    IN  [q |-> hi.q, r |-> hi.r * 1000 + lo.r]

\* int / 1_000_000: true division (correctly rounded, as CPython's
\* long_true_divide): a quotient of at least MantissaBits + 2 bits and a sticky
\* bit for the remainder, rounded once
TrueDivMillion(n) ==
    IF Len(n) = 0 THEN [m |-> <<>>, e |-> 0]
    ELSE LET k  == IF BitLen(n) >= MantissaBits + 22 THEN 0
                   ELSE MantissaBits + 22 - BitLen(n)
             qr == DivMillion(ShiftLeft(n, k))
         IN  ToDouble(MulAdd(qr.q, 2, IF qr.r = 0 THEN 0 ELSE 1), 0 - k - 1)

\* float * 1_000_000
FloatMulMillion(x) ==
    IF Len(x.m) = 0 THEN x ELSE ToDouble(MulMillion(x.m, 0), x.e)

\* int(float): truncation
FloatTrunc(x) ==
    IF x.e >= 0 THEN ShiftLeft(x.m, x.e) ELSE ShiftRight(x.m, 0 - x.e)

\* the fractional part of a float (modf), exact
FloatFrac(x) ==
    IF x.e >= 0 THEN [m |-> <<>>, e |-> 0] ELSE [m |-> LowBits(x.m, 0 - x.e), e |-> x.e]

\* round(float) to an integer, ties to even
FloatRound(x) ==
    IF x.e >= 0 THEN ShiftLeft(x.m, x.e) ELSE RoundHalfEven(x.m, 0 - x.e)

(***************************************************************************)
(* Datetimes and keys.                                                     *)
(* A datetime is [days, seconds, microseconds]: the normalised timedelta   *)
(* from 1970-01-01T00:00:00Z (0 <= seconds < 86400, 0 <= microseconds <    *)
(* 10^6, days negative before the epoch). A key is a sequence of 8 bytes.  *)
(***************************************************************************)
UsPerSecond == 1000000
SecondsPerDay == 86400
\* days from the epoch to 9999-12-31, the last day a datetime can hold
MaxDay == 2932896

DT(d, s, u) == [days |-> d, seconds |-> s, microseconds |-> u]

\* datetime comparison (start >= end is ~DtLess(start, end))
DtLess(a, b) ==
    \/ a.days < b.days
    \/ a.days = b.days /\ a.seconds < b.seconds
    \/ a.days = b.days /\ a.seconds = b.seconds /\ a.microseconds < b.microseconds

DtLeq(a, b) == a = b \/ DtLess(a, b)

\* delta * 86400 + a seconds, in two steps
MulDay(x, a) ==
    IF Len(x) = 0 THEN FromNat(a) ELSE MulAdd(MulAdd(x, 864, 0), 100, a)

DivDay(x) ==
    LET lo == DivMod(x, 100)
        hi == DivMod(lo.q, 864)
    IN  [q |-> hi.q, r |-> hi.r * 100 + lo.r]

\* (timestamp - epoch) in microseconds, as CPython's delta_to_microseconds:
\* sign and magnitude
DeltaMicroseconds(t) ==
    IF t.days >= 0
    THEN [neg |-> FALSE,
          mag |-> MulMillion(MulDay(FromNat(t.days), t.seconds), t.microseconds)]
    ELSE [neg |-> TRUE,
          mag |-> MulMillion(MulDay(FromNat(0 - t.days - 1),
                                    SecondsPerDay - 1 - t.seconds),
                             UsPerSecond - t.microseconds)]

\* struct.pack('>Q', n) of a natural n below 2^64: 8 bytes, big-endian
PackQ(n) ==
    LET l == Zeros(4 - Len(n)) \o n
    IN  << l[1] * 16 + l[2] \div 65536, (l[2] \div 256) % 256, l[2] % 256,
           l[3] \div 4096, (l[3] \div 16) % 256,
           (l[3] % 16) * 16 + l[4] \div 65536, (l[4] \div 256) % 256, l[4] % 256 >>

\* struct.unpack('>Q', key)[0]
UnpackQ(key) ==
    Norm(<< key[1] \div 16,
            (key[1] % 16) * 65536 + key[2] * 256 + key[3],
            key[4] * 4096 + key[5] * 16 + key[6] \div 16,
            (key[6] % 16) * 65536 + key[7] * 256 + key[8] >>)

\* bytes comparison a < b (Python compares bytes lexicographically)
BytesLess(a, b) ==
    \E i \in 1..Len(b) :
        /\ \A j \in 1..(i - 1) : j <= Len(a) /\ a[j] = b[j]
        /\ (i > Len(a) \/ a[i] < b[i])

\* timestamp.timestamp() * 1_000_000 truncated by int(): the magnitude
TimestampUs(timestamp) ==
    FloatTrunc(FloatMulMillion(TrueDivMillion(DeltaMicroseconds(timestamp).mag)))

\* _timestamp_to_key: [ok, key]; ok is FALSE when struct.pack raises struct.error
\* (a negative number or one of more than 64 bits)
_timestamp_to_key(timestamp) ==
    LET timestamp_us == TimestampUs(timestamp)
    IN  IF (DeltaMicroseconds(timestamp).neg /\ timestamp_us # <<>>)
           \/ BitLen(timestamp_us) > 64
        THEN [ok |-> FALSE, key |-> <<>>]
        ELSE [ok |-> TRUE, key |-> PackQ(timestamp_us)]

\* datetime.fromtimestamp(x, tz=utc) of a non-negative double x: the seconds are
\* the integer part, the microseconds the fraction times 10^6 rounded half to
\* even; a year after 9999 raises
FromTimestamp(x) ==
    LET us0   == ToNat(FloatRound(FloatMulMillion(FloatFrac(x))))
        carry == IF us0 >= UsPerSecond THEN 1 ELSE 0
        ds    == DivDay(MulAdd(FloatTrunc(x), 1, carry))
    IN  IF BitLen(ds.q) > 22 \/ ToNat(ds.q) > MaxDay
        THEN [ok |-> FALSE, timestamp |-> DT(0, 0, 0)]
        ELSE [ok |-> TRUE,
              timestamp |-> DT(ToNat(ds.q), ds.r, us0 - carry * UsPerSecond)]

\* _key_to_timestamp: [ok, timestamp]; ok is FALSE when fromtimestamp raises
_key_to_timestamp(key) == FromTimestamp(TrueDivMillion(UnpackQ(key)))

\* the exact instant a key stands for: its big-endian number, in whole
\* microseconds since the epoch, as a datetime (integer arithmetic only)
KeyTime(key) ==
    LET us == DivMillion(UnpackQ(key))
        ds == DivDay(us.q)
    IN  DT(ToNat(ds.q), ds.r, us.r)

(***************************************************************************)
(* The values the model runs on.                                           *)
(***************************************************************************)
None == <<>>
Some(v) == <<v>>

\* datetimes (aware, UTC) passed to the queries
BeforeEpoch == DT(-1, 86399, 999999)   \* 1969-12-31 23:59:59.999999
Epoch       == DT(0, 0, 0)             \* 1970-01-01 00:00:00
Noon2024    == DT(19723, 43200, 0)     \* 2024-01-01 12:00:00
T2038a      == DT(24855, 11648, 2)     \* 2038-01-19 03:14:08.000002
T2038b      == DT(24855, 11648, 3)     \* 2038-01-19 03:14:08.000003
Stamps == {BeforeEpoch, Epoch, Noon2024, T2038a, T2038b}
\* a later end for a range that follows one of these
T2038c      == DT(24855, 11648, 4)     \* 2038-01-19 03:14:08.000004

\* keys the daemon writes: the microsecond count, 8 bytes, big-endian
Key2024  == <<0, 6, 13, 225, 31, 12, 208, 0>>     \* 2024-01-01 12:00:00
Key2038a == <<0, 7, 161, 32, 0, 0, 0, 2>>         \* 2038-01-19 03:14:08.000002
Key2038b == <<0, 7, 161, 32, 0, 0, 0, 3>>         \* 2038-01-19 03:14:08.000003
Key2286a == <<0, 35, 134, 242, 111, 193, 0, 1>>   \* 2286-11-20 17:46:40.000001
Key2286b == <<0, 35, 134, 242, 111, 193, 0, 2>>   \* 2286-11-20 17:46:40.000002
Keys == {Key2024, Key2038a, Key2038b, Key2286a, Key2286b}

\* stored values: a SensorReading message with its optional fields, or bytes
\* that ParseFromString rejects
GoodValue ==
    [wellformed |-> TRUE, co2_ppm |-> Some(400), temperature_c |-> Some(21),
     humidity_percent |-> Some(45), quality_flags |-> 0]
CorruptValue ==
    [wellformed |-> FALSE, co2_ppm |-> None, temperature_c |-> None,
     humidity_percent |-> None, quality_flags |-> 0]
Values == {GoodValue, CorruptValue}

\* pandas interval strings, as a number of seconds: "-1H", "0H", "1H"
Intervals == {-3600, 0, 3600}

\* one afternoon of readings, 2024-01-01: the datetimes queried ...
T1305 == DT(19723, 47100, 0)           \* 2024-01-01 13:05:00
T1500 == DT(19723, 54000, 0)           \* 2024-01-01 15:00:00
DayStamps == {Noon2024, T1305, T1500}

\* ... the keys stored ...
Key1200a == <<0, 6, 13, 225, 32, 214, 147, 128>>  \* 2024-01-01 12:00:30
Key1305  == <<0, 6, 13, 226, 7, 130, 23, 0>>      \* 2024-01-01 13:05:00
Key1500  == <<0, 6, 13, 227, 162, 199, 188, 0>>   \* 2024-01-01 15:00:00
DayKeys == {Key2024, Key1200a, Key1305, Key1500}

\* ... the messages stored, complete or with fields the sensor did not report ...
Value10 ==
    [wellformed |-> TRUE, co2_ppm |-> Some(10), temperature_c |-> Some(21),
     humidity_percent |-> Some(45), quality_flags |-> 0]
Value20 ==
    [wellformed |-> TRUE, co2_ppm |-> Some(20), temperature_c |-> Some(23),
     humidity_percent |-> Some(45), quality_flags |-> 0]
ValueNoCo2 ==
    [wellformed |-> TRUE, co2_ppm |-> None, temperature_c |-> Some(22),
     humidity_percent |-> None, quality_flags |-> 1]
DayValues == {Value10, Value20, ValueNoCo2}

\* ... and the intervals asked for: "1H", and "7H", which does not divide a day
DayIntervals == {3600, 25200}

MaxStore == 3      \* entries in the store
MaxCount == 3      \* largest count asked of get_recent_readings
MaxFaultAt == 12   \* a cursor fault is injected at operation 1..MaxFaultAt
MaxBuckets == 25   \* intervals a get_aggregates query may span

Counts == -1..MaxCount
Faults == 0..MaxFaultAt    \* 0: no cursor operation fails

\* the codec, tabulated over the values it is applied to
KeyOf == [t \in Stamps \cup DayStamps \cup {T2038c} |-> _timestamp_to_key(t)]
TimestampOf == [k \in Keys \cup DayKeys |-> _key_to_timestamp(k)]
KeyTimeOf == [k \in Keys \cup DayKeys |-> KeyTime(k)]
DecodeKey(k) ==
    IF k.ok THEN _key_to_timestamp(k.key) ELSE [ok |-> FALSE, timestamp |-> DT(0, 0, 0)]
RoundTripOf == [t \in Stamps |-> DecodeKey(KeyOf[t])]

\* the stores: at most MaxStore entries, in the byte order of their keys
SortedKeys(S) ==
    CHOOSE s \in [1..Cardinality(S) -> S] :
        \A i \in 1..Cardinality(S) : \A j \in (i + 1)..Cardinality(S) :
            BytesLess(s[i], s[j])
Stores ==
    UNION { { [i \in 1..Len(ks) |-> [key |-> ks[i], value |-> v[i]]] :
                v \in [1..Len(ks) -> Values] } :
            ks \in { SortedKeys(S) :
                       S \in { X \in SUBSET Keys : Cardinality(X) <= MaxStore } } }
DayStores ==
    UNION { { [i \in 1..Len(ks) |-> [key |-> ks[i], value |-> v[i]]] :
                v \in [1..Len(ks) -> DayValues] } :
            ks \in { SortedKeys(S) :
                       S \in { X \in SUBSET DayKeys : Cardinality(X) <= MaxStore } } }

VARIABLES store, _db, ret
vars == <<store, _db, ret>>

(***************************************************************************)
(* The cursor of self._db.iteritems(): a position in the ordered store,    *)
(* valid from 1 to Len(store).                                             *)
(***************************************************************************)
it_seek(target) ==
    IF \E i \in 1..Len(store) : ~BytesLess(store[i].key, target)
    THEN CHOOSE i \in 1..Len(store) :
            /\ ~BytesLess(store[i].key, target)
            /\ \A j \in 1..(i - 1) : BytesLess(store[j].key, target)
    ELSE Len(store) + 1
it_seek_to_last == Len(store)
it_seek_to_first == 1
it_valid(pos) == pos \in 1..Len(store)
it_item(pos) == store[pos]
it_next(pos) == pos + 1
it_prev(pos) == pos - 1

(***************************************************************************)
(* What a call leaves behind: the exception raised ("None" when it         *)
(* returned), the rows returned, and what the call did on the way: io, the *)
(* number of cursor operations started; faulted, whether one of them       *)
(* raised; collected, the readings gathered when it did; the keys the      *)
(* range scan encoded (<<>> while not encoded); and decoded, the datetime  *)
(* a key was turned back into.                                             *)
(***************************************************************************)
Outcome(exc, value, io) ==
    [exc |-> exc, value |-> value, aggregated |-> <<>>, io |-> io,
     faulted |-> FALSE, collected |-> 0, start_key |-> <<>>, end_key |-> <<>>,
     decoded |-> <<>>]
Raise(exc, io) == Outcome(exc, <<>>, io)
Return(value, io) == Outcome("None", value, io)

\* a cursor operation raised inside the try: the except clause turns it into
\* a RuntimeError and the readings collected so far are dropped
\* (StoreFaultKeepsPartial: a variant that returns what was collected)
StoreFaultKeepsPartial(readings, io) ==
    [Return(readings, io) EXCEPT !.faulted = TRUE, !.collected = Len(readings)]
StoreFault(readings, io) ==
    [Raise("RuntimeError", io) EXCEPT !.faulted = TRUE, !.collected = Len(readings)]

\* the result dictionary _parse_sensor_reading builds from the parsed message
\* and the decoded key: [ok, reading]; ok is FALSE when ParseFromString or
\* _key_to_timestamp raised
\* (reading_dict_lenient: a variant whose ParseFromString accepts any bytes)
reading_dict_lenient(reading, timestamp) ==
    [ok |-> timestamp.ok,
     reading |-> [timestamp |-> timestamp.timestamp,
                  co2_ppm |-> reading.co2_ppm,
                  temperature_c |-> reading.temperature_c,
                  humidity_percent |-> reading.humidity_percent,
                  quality_flags |-> reading.quality_flags]]
reading_dict(reading, timestamp) ==
    [ok |-> reading.wellformed /\ timestamp.ok,
     reading |-> [timestamp |-> timestamp.timestamp,
                  co2_ppm |-> reading.co2_ppm,
                  temperature_c |-> reading.temperature_c,
                  humidity_percent |-> reading.humidity_percent,
                  quality_flags |-> reading.quality_flags]]
_parse_sensor_reading(key, value) == reading_dict(value, TimestampOf[key])

\* the inner try of both scans: a parsed reading is appended, a record that
\* does not parse is skipped
AppendParsed(readings, reading) ==
    IF reading.ok THEN Append(readings, reading.reading) ELSE readings
Parsed(readings, entry) ==
    AppendParsed(readings, _parse_sensor_reading(entry.key, entry.value))

\* readings.reverse()
\* (KeepOrder: a variant that leaves the list as it is)
KeepOrder(s) == s
Reverse(s) == [i \in 1..Len(s) |-> s[Len(s) + 1 - i]]

\* the loop of get_recent_readings, from it.valid() on; failAt is the cursor
\* operation that raises (0: none); recent_prev is the end of the loop body,
\* it.prev(), made as operation io
RECURSIVE recent_loop(_, _, _, _, _)
recent_prev(count, failAt, pos, readings, io) ==
    IF failAt = io THEN StoreFault(readings, io)                      \* it.prev()
    ELSE recent_loop(count, failAt, it_prev(pos), readings, io)
\* (recent_loop_ignores_count: a variant whose loop runs to the first entry)
recent_loop_ignores_count(count, failAt, pos, readings, io) ==
    IF failAt = io + 1 THEN StoreFault(readings, io + 1)
    ELSE IF ~it_valid(pos)
    THEN Return(Reverse(readings), io + 1)
    ELSE IF failAt = io + 2 THEN StoreFault(readings, io + 2)
    ELSE recent_prev(count, failAt, pos, Parsed(readings, it_item(pos)), io + 3)
\* (recent_loop_counts_visited: a variant whose quota counts the entries
\* visited, skipped ones included)
recent_loop_counts_visited(count, failAt, pos, readings, io) ==
    IF failAt = io + 1 THEN StoreFault(readings, io + 1)
    ELSE IF ~(it_valid(pos) /\ it_seek_to_last - pos < count)
    THEN Return(Reverse(readings), io + 1)
    ELSE IF failAt = io + 2 THEN StoreFault(readings, io + 2)
    ELSE recent_prev(count, failAt, pos, Parsed(readings, it_item(pos)), io + 3)
recent_loop(count, failAt, pos, readings, io) ==
    IF failAt = io + 1 THEN StoreFault(readings, io + 1)              \* it.valid()
    ELSE IF ~(it_valid(pos) /\ Len(readings) < count)
    THEN Return(Reverse(readings), io + 1)
    ELSE IF failAt = io + 2 THEN StoreFault(readings, io + 2)         \* it.item()
    ELSE recent_prev(count, failAt, pos, Parsed(readings, it_item(pos)), io + 3)

\* get_recent_readings
\* (get_recent_readings_db_first: a variant that tests self._db before count)
get_recent_readings_db_first(count, failAt) ==
    IF ~_db THEN Raise("RuntimeError", 0)
    ELSE IF count <= 0 THEN Raise("ValueError", 0)
    ELSE IF failAt = 1 THEN StoreFault(<<>>, 1)
    ELSE IF failAt = 2 THEN StoreFault(<<>>, 2)
    ELSE recent_loop(count, failAt, it_seek_to_last, <<>>, 2)
get_recent_readings(count, failAt) ==
    IF count <= 0 THEN Raise("ValueError", 0)
    ELSE IF ~_db THEN Raise("RuntimeError", 0)
    ELSE IF failAt = 1 THEN StoreFault(<<>>, 1)                       \* iteritems()
    ELSE IF failAt = 2 THEN StoreFault(<<>>, 2)                       \* seek_to_last()
    ELSE recent_loop(count, failAt, it_seek_to_last, <<>>, 2)

\* the loop of get_readings_range, from it.valid() on; range_next is the end
\* of the loop body, it.next(), made as operation io
RECURSIVE range_loop(_, _, _, _, _)
range_next(end_key, failAt, pos, readings, io) ==
    IF failAt = io THEN StoreFault(readings, io)                      \* it.next()
    ELSE range_loop(end_key, failAt, it_next(pos), readings, io)
range_loop(end_key, failAt, pos, readings, io) ==
    IF failAt = io + 1 THEN StoreFault(readings, io + 1)              \* it.valid()
    ELSE IF ~it_valid(pos) THEN Return(readings, io + 1)
    ELSE IF failAt = io + 2 THEN StoreFault(readings, io + 2)         \* it.item()
    ELSE IF BytesLess(end_key, it_item(pos).key) THEN Return(readings, io + 2)
    ELSE range_next(end_key, failAt, pos, Parsed(readings, it_item(pos)), io + 3)

\* the try block of get_readings_range, given what _timestamp_to_key made of
\* start and of end
range_scan(start_key, end_key, failAt) ==
    IF ~start_key.ok THEN Raise("RuntimeError", 0)                    \* struct.error
    ELSE IF ~end_key.ok
    THEN [Raise("RuntimeError", 0) EXCEPT !.start_key = start_key.key]
    ELSE [(IF failAt = 1 THEN StoreFault(<<>>, 1)                     \* iteritems()
           ELSE IF failAt = 2 THEN StoreFault(<<>>, 2)                \* seek()
           ELSE range_loop(end_key.key, failAt, it_seek(start_key.key), <<>>, 2))
          EXCEPT !.start_key = start_key.key, !.end_key = end_key.key]

\* get_readings_range
\* (get_readings_range_allows_equal: a variant that tests start > end)
get_readings_range_allows_equal(start, end, failAt) ==
    IF DtLess(end, start) THEN Raise("ValueError", 0)
    ELSE IF ~_db THEN Raise("RuntimeError", 0)
    ELSE range_scan(KeyOf[start], KeyOf[end], failAt)
get_readings_range(start, end, failAt) ==
    IF DtLeq(end, start) THEN Raise("ValueError", 0)
    ELSE IF ~_db THEN Raise("RuntimeError", 0)
    ELSE range_scan(KeyOf[start], KeyOf[end], failAt)
(***************************************************************************)
(* get_aggregates: pandas' df.resample(interval).agg(mean, min, max,       *)
(* count) over the frame of get_readings_range.  The bins are anchored at  *)
(* midnight of the first reading's day (origin 'start_day'), closed and    *)
(* labelled on the left, and run from the bin of the first reading to the  *)
(* bin of the last one, empty bins included.                               *)
(***************************************************************************)
SecondsFrom(day, t) == (t.days - day) * SecondsPerDay + t.seconds

RECURSIVE SeqSum(_)
SeqSum(s) == IF s = <<>> THEN 0 ELSE s[1] + SeqSum(Tail(s))
SeqMin(s) == CHOOSE x \in {s[i] : i \in 1..Len(s)} : \A i \in 1..Len(s) : x <= s[i]
SeqMax(s) == CHOOSE x \in {s[i] : i \in 1..Len(s)} : \A i \in 1..Len(s) : x >= s[i]

\* mean (sum over count, as the pair <<sum, count>>), min, max and count of the
\* values of one column that are present in the rows of one bin
\* (ColumnStatsCountsAll: a variant whose count takes in the absent values)
ColumnStatsCountsAll(cells) ==
    LET present == SelectSeq(cells, LAMBDA c : c # None)
        vals    == [i \in 1..Len(present) |-> present[i][1]]
    IN  IF vals = <<>>
        THEN [mean |-> None, min |-> None, max |-> None, count |-> Len(cells)]
        ELSE [mean |-> <<SeqSum(vals), Len(vals)>>, min |-> Some(SeqMin(vals)),
              max |-> Some(SeqMax(vals)), count |-> Len(cells)]
ColumnStats(cells) ==
    LET present == SelectSeq(cells, LAMBDA c : c # None)
        vals    == [i \in 1..Len(present) |-> present[i][1]]
    IN  IF vals = <<>>
        THEN [mean |-> None, min |-> None, max |-> None, count |-> 0]
        ELSE [mean |-> <<SeqSum(vals), Len(vals)>>, min |-> Some(SeqMin(vals)),
              max |-> Some(SeqMax(vals)), count |-> Len(vals)]

\* dropna(how='all') drops a row whose every column is NaN; the timestamp and
\* the count columns never are
RowAllNaN(row) ==
    /\ FALSE
    /\ row.co2_ppm_mean = None /\ row.co2_ppm_min = None /\ row.co2_ppm_max = None
    /\ row.temperature_c_mean = None /\ row.temperature_c_min = None
    /\ row.temperature_c_max = None
    /\ row.humidity_percent_mean = None /\ row.humidity_percent_min = None
    /\ row.humidity_percent_max = None

\* (resample_closed_right: a variant whose bins are closed on the right, so
\* that a reading on a boundary falls in the earlier bin)
resample_closed_right(df, interval) ==
    LET day     == df[1].timestamp.days
        BinOf(r) == (SecondsFrom(day, r.timestamp) + interval - 1) \div interval - 1
        first   == BinOf(df[1])
        last    == BinOf(df[Len(df)])
        Bin(k)  == SelectSeq(df, LAMBDA r : BinOf(r) = k)
        Row(k)  ==
            LET rows == Bin(k)
                co2  == ColumnStats([i \in 1..Len(rows) |-> rows[i].co2_ppm])
                temp == ColumnStats([i \in 1..Len(rows) |-> rows[i].temperature_c])
                hum  == ColumnStats([i \in 1..Len(rows) |-> rows[i].humidity_percent])
            IN  [timestamp |-> DT(day + (k * interval) \div SecondsPerDay,
                                  (k * interval) % SecondsPerDay, 0),
                 co2_ppm_mean |-> co2.mean, co2_ppm_min |-> co2.min,
                 co2_ppm_max |-> co2.max, co2_ppm_count |-> co2.count,
                 temperature_c_mean |-> temp.mean, temperature_c_min |-> temp.min,
                 temperature_c_max |-> temp.max, temperature_c_count |-> temp.count,
                 humidity_percent_mean |-> hum.mean, humidity_percent_min |-> hum.min,
                 humidity_percent_max |-> hum.max, humidity_percent_count |-> hum.count]
    IN  [i \in 1..(last - first + 1) |-> Row(first + i - 1)]
\* (resample_from_end: a variant whose bins are anchored at the last reading)
resample_from_end(df, interval) ==
    LET day     == df[1].timestamp.days
        off     == SecondsFrom(day, df[Len(df)].timestamp) % interval
        first   == (SecondsFrom(day, df[1].timestamp) - off) \div interval
        last    == (SecondsFrom(day, df[Len(df)].timestamp) - off) \div interval
        Bin(k)  == SelectSeq(df, LAMBDA r :
                       (SecondsFrom(day, r.timestamp) - off) \div interval = k)
        Row(k)  ==
            LET rows == Bin(k)
                co2  == ColumnStats([i \in 1..Len(rows) |-> rows[i].co2_ppm])
                temp == ColumnStats([i \in 1..Len(rows) |-> rows[i].temperature_c])
                hum  == ColumnStats([i \in 1..Len(rows) |-> rows[i].humidity_percent])
            IN  [timestamp |-> DT(day + (k * interval + off) \div SecondsPerDay,
                                  (k * interval + off) % SecondsPerDay, 0),
                 co2_ppm_mean |-> co2.mean, co2_ppm_min |-> co2.min,
                 co2_ppm_max |-> co2.max, co2_ppm_count |-> co2.count,
                 temperature_c_mean |-> temp.mean, temperature_c_min |-> temp.min,
                 temperature_c_max |-> temp.max, temperature_c_count |-> temp.count,
                 humidity_percent_mean |-> hum.mean, humidity_percent_min |-> hum.min,
                 humidity_percent_max |-> hum.max, humidity_percent_count |-> hum.count]
    IN  [i \in 1..(last - first + 1) |-> Row(first + i - 1)]
resample(df, interval) ==
    LET day     == df[1].timestamp.days
        first   == SecondsFrom(day, df[1].timestamp) \div interval
        last    == SecondsFrom(day, df[Len(df)].timestamp) \div interval
        Bin(k)  == SelectSeq(df, LAMBDA r : SecondsFrom(day, r.timestamp) \div interval = k)
        Row(k)  ==
            LET rows == Bin(k)
                co2  == ColumnStats([i \in 1..Len(rows) |-> rows[i].co2_ppm])
                temp == ColumnStats([i \in 1..Len(rows) |-> rows[i].temperature_c])
                hum  == ColumnStats([i \in 1..Len(rows) |-> rows[i].humidity_percent])
            IN  [timestamp |-> DT(day + (k * interval) \div SecondsPerDay,
                                  (k * interval) % SecondsPerDay, 0),
                 co2_ppm_mean |-> co2.mean, co2_ppm_min |-> co2.min,
                 co2_ppm_max |-> co2.max, co2_ppm_count |-> co2.count,
                 temperature_c_mean |-> temp.mean, temperature_c_min |-> temp.min,
                 temperature_c_max |-> temp.max, temperature_c_count |-> temp.count,
                 humidity_percent_mean |-> hum.mean, humidity_percent_min |-> hum.min,
                 humidity_percent_max |-> hum.max, humidity_percent_count |-> hum.count]
    IN  SelectSeq([i \in 1..(last - first + 1) |-> Row(first + i - 1)],
                  LAMBDA row : ~RowAllNaN(row))

\* get_aggregates from the frame of get_readings_range on
\* (aggregate_frame_drops_first: a variant that aggregates the frame without
\* its first reading)
aggregate_frame_drops_first(df, interval) ==
    IF df.exc # "None" THEN df
    ELSE IF df.value = <<>> THEN df
    ELSE IF interval <= 0
    THEN [df EXCEPT !.exc = "RuntimeError", !.value = <<>>]
    ELSE IF Len(df.value) = 1 THEN [df EXCEPT !.value = <<>>]
    ELSE [df EXCEPT !.value = <<>>,
                    !.aggregated = resample(Tail(df.value), interval)]
\* (aggregate_frame_resamples_empty: a variant without the test of df.empty,
\* which hands the frame without a timestamp column to set_index)
aggregate_frame_resamples_empty(df, interval) ==
    IF df.exc # "None" THEN df
    ELSE IF df.value = <<>> \/ interval <= 0
    THEN [df EXCEPT !.exc = "RuntimeError", !.value = <<>>]
    ELSE [df EXCEPT !.value = <<>>, !.aggregated = resample(df.value, interval)]
aggregate_frame(df, interval) ==
    IF df.exc # "None" THEN df
    ELSE IF df.value = <<>> THEN df                                    \* df.empty
    ELSE IF interval <= 0
    THEN [df EXCEPT !.exc = "RuntimeError", !.value = <<>>]            \* resample raises
    ELSE [df EXCEPT !.value = <<>>, !.aggregated = resample(df.value, interval)]

get_aggregates(start, end, interval, failAt) ==
    IF DtLeq(end, start) THEN Raise("ValueError", 0)
    ELSE aggregate_frame(get_readings_range(start, end, failAt), interval)

(***************************************************************************)
(* get_database_info: the first and the last key, and a count of the       *)
(* entries that stops at CountLimit.                                       *)
(***************************************************************************)
CountLimit == 10000
db_path == "/var/lib/sensor-daemon/data"

\* count, when `while it.valid() and count < 10000` is left: the loop body has
\* run n times, each time stepping the cursor once, when the condition fails
\* for the first time after n steps from the first entry
\* (counted_parsed: a variant that counts the entries whose value parses)
counted_parsed == Len(SelectSeq(store, LAMBDA entry : entry.value.wellformed))
counted ==
    CHOOSE n \in 0..CountLimit :
        /\ ~(it_valid(it_seek_to_first + n) /\ n < CountLimit)
        /\ \A m \in 0..(n - 1) : it_valid(it_seek_to_first + m) /\ m < CountLimit

\* total_records is a number, or a number followed by "+":
\* count if count < 10000 else f"{count}+"
\* (approximate_count_plain: a variant that always gives the number)
approximate_count_plain(count) == [records |-> count, plus |-> FALSE]
approximate_count(count) == [records |-> count, plus |-> ~(count < CountLimit)]
no_records == [records |-> 0, plus |-> FALSE]

database_info(total_records, earliest_timestamp, latest_timestamp) ==
    [total_records |-> total_records, database_path |-> db_path,
     earliest_timestamp |-> earliest_timestamp,
     latest_timestamp |-> latest_timestamp]

\* the counting loop and the return: the loop makes count + 1 calls of
\* it.valid() and count calls of it.next(), in turn, as operations io + 1 on
info_count(failAt, count, earliest, latest, io) ==
    IF failAt \in (io + 1)..(io + 2 * count + 1) THEN StoreFault(<<>>, failAt)
    ELSE Return(database_info(approximate_count(count), Some(earliest.timestamp),
                              Some(latest.timestamp)),
                io + 2 * count + 1)

\* get_database_info from the first it.item() on, given what _key_to_timestamp
\* makes of the first and of the last key
info_scan(failAt, earliest, latest) ==
    IF failAt = 4 THEN StoreFault(<<>>, 4)                            \* it.item()
    ELSE IF ~earliest.ok THEN Raise("RuntimeError", 4)
    ELSE IF failAt = 5 THEN StoreFault(<<>>, 5)                       \* seek_to_last()
    ELSE IF failAt = 6 THEN StoreFault(<<>>, 6)                       \* it.item()
    ELSE IF ~latest.ok THEN Raise("RuntimeError", 6)
    ELSE IF failAt = 7 THEN StoreFault(<<>>, 7)                       \* seek_to_first()
    ELSE info_count(failAt, counted, earliest, latest, 7)

\* (get_database_info_closed_is_empty: a variant that answers for a closed
\* reader as it does for an empty store)
get_database_info_closed_is_empty(failAt) ==
    IF ~_db THEN Return(database_info(no_records, None, None), 0)
    ELSE IF failAt = 1 THEN StoreFault(<<>>, 1)
    ELSE IF failAt = 2 THEN StoreFault(<<>>, 2)
    ELSE IF failAt = 3 THEN StoreFault(<<>>, 3)
    ELSE IF ~it_valid(it_seek_to_first)
    THEN Return(database_info(no_records, None, None), 3)
    ELSE info_scan(failAt, TimestampOf[it_item(it_seek_to_first).key],
                   TimestampOf[it_item(it_seek_to_last).key])
get_database_info(failAt) ==
    IF ~_db THEN Raise("RuntimeError", 0)
    ELSE IF failAt = 1 THEN StoreFault(<<>>, 1)                       \* iteritems()
    ELSE IF failAt = 2 THEN StoreFault(<<>>, 2)                       \* seek_to_first()
    ELSE IF failAt = 3 THEN StoreFault(<<>>, 3)                       \* it.valid()
    ELSE IF ~it_valid(it_seek_to_first)
    THEN Return(database_info(no_records, None, None), 3)
    ELSE info_scan(failAt, TimestampOf[it_item(it_seek_to_first).key],
                   TimestampOf[it_item(it_seek_to_last).key])

\* is_daemon_running, the same in both readers.  systemctl and pgrep are what
\* the two subprocess.run calls do: raise one of the exceptions the method
\* catches, or complete with a return code (and, for systemctl, the stripped
\* output).  probes counts the calls of subprocess.run.
\* (is_daemon_running_asks_pgrep_too: a variant that also falls back to pgrep
\* when systemctl has answered that the service is not active)
is_daemon_running_asks_pgrep_too(systemctl, pgrep) ==
    IF systemctl.raised = "None" /\ systemctl.returncode = 0 /\ systemctl.stdout = "active"
    THEN [probes |-> 1] @@ Return(Some(TRUE), 0)
    ELSE IF pgrep.raised = "None"
    THEN [probes |-> 2] @@ Return(Some(pgrep.returncode = 0), 0)
    ELSE [probes |-> 2] @@ Return(Some(FALSE), 0)
is_daemon_running(systemctl, pgrep) ==
    IF systemctl.raised = "None"
    THEN [probes |-> 1]
           @@ Return(Some(systemctl.returncode = 0 /\ systemctl.stdout = "active"), 0)
    ELSE IF pgrep.raised = "None"
    THEN [probes |-> 2] @@ Return(Some(pgrep.returncode = 0), 0)
    ELSE [probes |-> 2] @@ Return(Some(FALSE), 0)

\* the exceptions of subprocess.run that is_daemon_running catches
ProbeErrors == {"TimeoutExpired", "FileNotFoundError", "SubprocessError"}
\* systemctl is-active: 0 and "active", 3 and "inactive", and the mixed answers
Services ==
    {[raised |-> "None", returncode |-> rc, stdout |-> out] :
        rc \in {0, 3}, out \in {"active", "inactive"}}
    \cup {[raised |-> e, returncode |-> 0, stdout |-> ""] : e \in ProbeErrors}
\* pgrep: 0 when a process matches, 1 when none does
Processes ==
    {[raised |-> "None", returncode |-> rc] : rc \in {0, 1}}
    \cup {[raised |-> e, returncode |-> 0] : e \in ProbeErrors}

\* _key_to_timestamp(_timestamp_to_key(timestamp))
round_trip(key, timestamp) ==
    IF ~key.ok THEN Raise("struct.error", 0)
    ELSE IF ~timestamp.ok THEN [Raise("ValueError", 0) EXCEPT !.start_key = key.key]
    ELSE [Return(<<>>, 0) EXCEPT !.start_key = key.key,
                                 !.decoded = Some(timestamp.timestamp)]
timestamp_round_trip(timestamp) ==
    round_trip(KeyOf[timestamp], RoundTripOf[timestamp])

(***************************************************************************)
(* The state machine: a reader on a store, one call at a time.  ret holds  *)
(* the call just made, with its arguments, until the caller has taken it.  *)
(***************************************************************************)
Call(op, count, start, end, interval, outcome) ==
    [op |-> op, count |-> count, start |-> start, end |-> end,
     interval |-> interval] @@ outcome
NoRet == Call("none", 0, Epoch, Epoch, 0, Raise("None", 0))

\* a query spans at most MaxBuckets intervals (and as many days)
SpanBounded(start, end, interval) ==
    (interval > 0 /\ DtLess(start, end)) =>
        /\ end.days - start.days <= MaxBuckets
        /\ SecondsFrom(start.days, end) \div interval + 1 <= MaxBuckets

Init ==
    /\ store \in Stores
    /\ _db = TRUE
    /\ ret = NoRet

CallGetRecentReadings ==
    /\ ret = NoRet
    /\ \E count \in Counts, failAt \in Faults :
         ret' = Call("get_recent_readings", count, Epoch, Epoch, 0,
                     get_recent_readings(count, failAt))
    /\ UNCHANGED <<store, _db>>

CallGetReadingsRange ==
    /\ ret = NoRet
    /\ \E start \in Stamps, end \in Stamps, failAt \in Faults :
         ret' = Call("get_readings_range", 0, start, end, 0,
                     get_readings_range(start, end, failAt))
    /\ UNCHANGED <<store, _db>>

CallGetAggregates ==
    /\ ret = NoRet
    /\ \E start \in Stamps, end \in Stamps, interval \in Intervals, failAt \in Faults :
         /\ SpanBounded(start, end, interval)
         /\ ret' = Call("get_aggregates", 0, start, end, interval,
                        get_aggregates(start, end, interval, failAt))
    /\ UNCHANGED <<store, _db>>

CallTimestampRoundTrip ==
    /\ ret = NoRet
    /\ \E timestamp \in Stamps :
         ret' = Call("timestamp_round_trip", 0, timestamp, timestamp, 0,
                     timestamp_round_trip(timestamp))
    /\ UNCHANGED <<store, _db>>

close ==
    /\ ret = NoRet
    /\ _db' = FALSE
    /\ UNCHANGED <<store, ret>>

ResultTaken ==
    /\ ret # NoRet
    /\ ret' = NoRet
    /\ UNCHANGED <<store, _db>>

Next ==
    \/ CallGetRecentReadings
    \/ CallGetReadingsRange
    \/ CallGetAggregates
    \/ CallTimestampRoundTrip
    \/ close
    \/ ResultTaken

Spec == Init /\ [][Next]_vars

(***************************************************************************)
(* The same reader on a store that holds one afternoon of readings, asked  *)
(* for ranges and aggregates of that afternoon.                            *)
(***************************************************************************)
InitDay ==
    /\ store \in DayStores
    /\ _db = TRUE
    /\ ret = NoRet

CallGetReadingsRangeDay ==
    /\ ret = NoRet
    /\ \E start \in DayStamps, end \in DayStamps, failAt \in Faults :
         ret' = Call("get_readings_range", 0, start, end, 0,
                     get_readings_range(start, end, failAt))
    /\ UNCHANGED <<store, _db>>

CallGetAggregatesDay ==
    /\ ret = NoRet
    /\ \E start \in DayStamps, end \in DayStamps, interval \in DayIntervals,
          failAt \in Faults :
         /\ SpanBounded(start, end, interval)
         /\ ret' = Call("get_aggregates", 0, start, end, interval,
                        get_aggregates(start, end, interval, failAt))
    /\ UNCHANGED <<store, _db>>

CallGetDatabaseInfo ==
    /\ ret = NoRet
    /\ \E failAt \in Faults :
         ret' = Call("get_database_info", 0, Epoch, Epoch, 0,
                     get_database_info(failAt))
    /\ UNCHANGED <<store, _db>>

IsDaemonRunning ==
    /\ ret = NoRet
    /\ \E systemctl \in Services, pgrep \in Processes :
         ret' = [systemctl |-> systemctl, pgrep |-> pgrep]
                  @@ Call("is_daemon_running", 0, Epoch, Epoch, 0,
                          is_daemon_running(systemctl, pgrep))
    /\ UNCHANGED <<store, _db>>

NextDay ==
    \/ CallGetRecentReadings
    \/ CallGetReadingsRangeDay
    \/ CallGetAggregatesDay
    \/ CallGetDatabaseInfo
    \/ IsDaemonRunning
    \/ close
    \/ ResultTaken

SpecDay == InitDay /\ [][NextDay]_vars

\* the same calls on any of the stores: those of the afternoon, and those
\* with corrupt records and with the keys of 2038 and 2286
InitMixed ==
    /\ store \in Stores \cup DayStores
    /\ _db = TRUE
    /\ ret = NoRet

SpecMixed == InitMixed /\ [][NextDay]_vars

(***************************************************************************)
(* The reader used as a context manager.  __enter__ returns the reader     *)
(* itself; __exit__ is called when the with block is left, with the type   *)
(* of the exception that is leaving it ("None" when the block ended); it   *)
(* calls close() and returns None, which tells Python not to suppress the  *)
(* exception.                                                              *)
(***************************************************************************)
\* (__exit__on_success_only: a variant that closes only when the block ended
\* without an exception)
__exit__on_success_only(handle, exc_type) ==
    [handle |-> IF exc_type = "None" THEN FALSE ELSE handle, suppress |-> FALSE]
__exit__(handle, exc_type) == [handle |-> FALSE, suppress |-> FALSE]

\* the with block is left: after a call of the block that raised, whose
\* exception ret holds and goes on to the caller, or after its last statement
LeaveWith ==
    /\ ret.op \notin {"__exit__"}
    /\ _db' = __exit__(_db, ret.exc).handle
    /\ ret' = IF __exit__(_db, ret.exc).suppress
              THEN [NoRet EXCEPT !.op = "__exit__"]
              ELSE [ret EXCEPT !.op = "__exit__"]
    /\ UNCHANGED store

NextWith ==
    \/ NextDay
    \/ LeaveWith

SpecWith == InitDay /\ [][NextWith]_vars

(***************************************************************************)
(* The same reader asked for get_database_info, on the stores of the       *)
(* afternoon and on stores of about CountLimit entries: these hold the     *)
(* first and the last key of the afternoon and, in between, one key every  *)
(* 65536 microseconds from 13:05:08 on.                                    *)
(***************************************************************************)
FillerKey(i) == <<0, 6, 13, 226, 8 + i \div 256, i % 256, 0, 0>>
BigStore(n) ==
    [i \in 1..n |->
        [key |-> IF i = 1 THEN Key2024 ELSE IF i = n THEN Key1500 ELSE FillerKey(i),
         value |-> Value10]]
BigStores == {BigStore(n) : n \in (CountLimit - 1)..(CountLimit + 1)}

InitInfo ==
    /\ store \in DayStores \cup BigStores
    /\ _db = TRUE
    /\ ret = NoRet

NextInfo ==
    \/ CallGetDatabaseInfo
    \/ close
    \/ ResultTaken

SpecInfo == InitInfo /\ [][NextInfo]_vars

(***************************************************************************)
(* SimpleSensorDataReader, the reader the package falls back to when       *)
(* python-rocksdb cannot be imported, and the command line in front of     *)
(* either reader.  The store binding of this reader has no cursor, only    *)
(* Get(key): io counts the calls of Get.                                   *)
(***************************************************************************)
simple_get_recent_readings(count) == Raise("NotImplementedError", 0)
simple_get_readings_range(start, end) == Raise("NotImplementedError", 0)
simple_get_aggregates(start, end, interval) == Raise("NotImplementedError", 0)

\* self._db.Get(read_opts, key): the value stored under the key, if any
Get(key) ==
    IF \E i \in 1..Len(store) : store[i].key = key
    THEN Some(store[CHOOSE i \in 1..Len(store) : store[i].key = key].value)
    ELSE None

\* the try block of get_single_reading from Get on: a RuntimeError of Get is
\* "NotFound" and gives None, or is raised again; what _parse_sensor_reading
\* raises is no RuntimeError and passes through
single_reading(key, found, fails) ==
    IF fails THEN [Raise("RuntimeError", 1) EXCEPT !.faulted = TRUE, !.start_key = key]
    ELSE IF found = None THEN [Return(None, 1) EXCEPT !.start_key = key]
    ELSE IF ~_parse_sensor_reading(key, found[1]).ok
    THEN [Raise("DecodeError", 1) EXCEPT !.start_key = key]
    ELSE [Return(Some(_parse_sensor_reading(key, found[1]).reading), 1)
            EXCEPT !.start_key = key]

simple_get_single_reading(timestamp, fails) ==
    IF ~_db THEN Raise("RuntimeError", 0)
    ELSE IF ~KeyOf[timestamp].ok THEN Raise("struct.error", 0)
    ELSE single_reading(KeyOf[timestamp].key, Get(KeyOf[timestamp].key), fails)

simple_get_database_info ==
    IF ~_db THEN Raise("RuntimeError", 0)
    ELSE Return(Some([database_path |-> db_path,
                      implementation |-> "rocksdb-python (limited functionality)"]), 0)

\* `with SensorDataReader(args.db_path) as reader:` and the command in it.
\* When the constructor raises there is no reader to enter or to close; else
\* __exit__ calls close() when the block is left, whether the command returned
\* or raised, and returns None, so that what the command raised goes on.
\* (with_reader_closes_at_end: a variant that closes the reader as the last
\* statement of the block)
with_reader_closes_at_end(construct_raises, command_raises) ==
    IF construct_raises THEN [entered |-> FALSE, closed |-> FALSE, raised |-> TRUE]
    ELSE [entered |-> TRUE, closed |-> ~command_raises, raised |-> command_raises]
with_reader(construct_raises, command_raises) ==
    IF construct_raises THEN [entered |-> FALSE, closed |-> FALSE, raised |-> TRUE]
    ELSE [entered |-> TRUE, closed |-> TRUE, raised |-> command_raises]

\* the with block was not reached
not_reached == [entered |-> FALSE, closed |-> FALSE, raised |-> FALSE]

\* main, from the parsed arguments on: the exit code; whether
\* SensorDataReader(args.db_path) was called; whether "Error: ..." was printed
\* to stderr; and what became of the reader.  block is what the with block did.
\* (main_without_capability_check: a variant without the test of
\* FULL_IMPLEMENTATION_AVAILABLE)
main_without_capability_check(command, FULL_IMPLEMENTATION_AVAILABLE, block) ==
    IF command = "" THEN [exit |-> 1, constructed |-> FALSE, stderr |-> ""] @@ not_reached
    ELSE [exit |-> IF block.raised THEN 1 ELSE 0, constructed |-> TRUE,
          stderr |-> IF block.raised THEN "Error" ELSE ""] @@ block
main(command, FULL_IMPLEMENTATION_AVAILABLE, block) ==
    IF command = "" THEN [exit |-> 1, constructed |-> FALSE, stderr |-> ""] @@ not_reached
    ELSE IF ~FULL_IMPLEMENTATION_AVAILABLE /\ command \in {"recent", "range", "aggregate"}
    THEN [exit |-> 1, constructed |-> FALSE, stderr |-> "Error"] @@ not_reached
    ELSE [exit |-> IF block.raised THEN 1 ELSE 0, constructed |-> TRUE,
          stderr |-> IF block.raised THEN "Error" ELSE ""] @@ block

Commands == {"", "recent", "range", "aggregate", "status", "info"}

InitSimple ==
    /\ store \in DayStores
    /\ _db = TRUE
    /\ ret = NoRet

SimpleGetRecentReadings ==
    /\ ret = NoRet
    /\ \E count \in Counts :
         ret' = Call("simple.get_recent_readings", count, Epoch, Epoch, 0,
                     simple_get_recent_readings(count))
    /\ UNCHANGED <<store, _db>>

SimpleGetReadingsRange ==
    /\ ret = NoRet
    /\ \E start \in DayStamps, end \in DayStamps :
         ret' = Call("simple.get_readings_range", 0, start, end, 0,
                     simple_get_readings_range(start, end))
    /\ UNCHANGED <<store, _db>>

SimpleGetAggregates ==
    /\ ret = NoRet
    /\ \E start \in DayStamps, end \in DayStamps, interval \in Intervals :
         ret' = Call("simple.get_aggregates", 0, start, end, interval,
                     simple_get_aggregates(start, end, interval))
    /\ UNCHANGED <<store, _db>>

SimpleGetSingleReading ==
    /\ ret = NoRet
    /\ \E timestamp \in DayStamps \cup {BeforeEpoch}, fails \in BOOLEAN :
         ret' = Call("simple.get_single_reading", 0, timestamp, timestamp, 0,
                     simple_get_single_reading(timestamp, fails))
    /\ UNCHANGED <<store, _db>>

SimpleGetDatabaseInfo ==
    /\ ret = NoRet
    /\ ret' = Call("simple.get_database_info", 0, Epoch, Epoch, 0,
                   simple_get_database_info)
    /\ UNCHANGED <<store, _db>>

Main ==
    /\ ret = NoRet
    /\ \E command \in Commands, full \in BOOLEAN,
          construct_raises \in BOOLEAN, command_raises \in BOOLEAN :
         ret' = [command |-> command, full |-> full,
                 construct_raises |-> construct_raises,
                 command_raises |-> command_raises]
                  @@ main(command, full, with_reader(construct_raises, command_raises))
                  @@ Call("main", 0, Epoch, Epoch, 0, Raise("None", 0))
    /\ UNCHANGED <<store, _db>>

NextSimple ==
    \/ SimpleGetRecentReadings
    \/ SimpleGetReadingsRange
    \/ SimpleGetAggregates
    \/ SimpleGetSingleReading
    \/ SimpleGetDatabaseInfo
    \/ IsDaemonRunning
    \/ Main
    \/ close
    \/ ResultTaken

SpecSimple == InitSimple /\ [][NextSimple]_vars

(***************************************************************************)
(* SensorDataReader.__init__.  path_exists is what os.path.exists(db_path) *)
(* answers, open_fails whether rocksdb.DB(db_path, opts, read_only=True)   *)
(* raises.  The outcome counts the calls of rocksdb.DB in io; its value is *)
(* the reader the caller gets, or None when the constructor raised; handle *)
(* is self._db at the end (None, set at the top, unless the open           *)
(* succeeded).                                                             *)
(***************************************************************************)
\* (__init__opening_first: a variant that opens the store before it looks
\* at the path)
__init__opening_first(path_exists, open_fails) ==
    IF ~path_exists THEN [outcome |-> Raise("FileNotFoundError", 1), handle |-> FALSE]
    ELSE IF open_fails THEN [outcome |-> Raise("RuntimeError", 1), handle |-> FALSE]
    ELSE [outcome |-> Return(Some("SensorDataReader"), 1), handle |-> TRUE]
__init__(path_exists, open_fails) ==
    IF ~path_exists THEN [outcome |-> Raise("FileNotFoundError", 0), handle |-> FALSE]
    ELSE IF open_fails THEN [outcome |-> Raise("RuntimeError", 1), handle |-> FALSE]
    ELSE [outcome |-> Return(Some("SensorDataReader"), 1), handle |-> TRUE]

\* SimpleSensorDataReader.__init__: the same, after a test of whether
\* rocksdb_python could be imported
\* (simple__init__unchecked: a variant without that test, whose use of the
\* names that were not imported raises inside the try block)
simple__init__unchecked(ROCKSDB_PYTHON_AVAILABLE, path_exists, open_fails) ==
    __init__(path_exists, open_fails \/ ~ROCKSDB_PYTHON_AVAILABLE).outcome
simple__init__(ROCKSDB_PYTHON_AVAILABLE, path_exists, open_fails) ==
    IF ~ROCKSDB_PYTHON_AVAILABLE THEN Raise("ImportError", 0)
    ELSE __init__(path_exists, open_fails).outcome

\* the imports at the top of reader.py and of reader_simple.py: whether the
\* module imports, given which of the modules it needs can be imported;
\* reader_simple catches the ImportError of rocksdb_python itself
reader_imports(pandas, rocksdb, sensor_data_pb2) == pandas /\ rocksdb /\ sensor_data_pb2
reader_simple_imports(pandas, sensor_data_pb2) == pandas /\ sensor_data_pb2

\* import sensor_daemon: the two names the package exports
sensor_daemon(reader, reader_simple) ==
    [FULL_IMPLEMENTATION_AVAILABLE |-> reader,
     SensorDataReader |-> IF reader THEN "reader.SensorDataReader"
                          ELSE IF reader_simple THEN "reader_simple.SimpleSensorDataReader"
                          ELSE "stub"]

\* SensorDataReader(db_path), for what the package has bound the name to
SensorDataReader(bound, ROCKSDB_PYTHON_AVAILABLE, path_exists, open_fails) ==
    IF bound = "reader.SensorDataReader" THEN __init__(path_exists, open_fails).outcome
    ELSE IF bound = "reader_simple.SimpleSensorDataReader"
    THEN simple__init__(ROCKSDB_PYTHON_AVAILABLE, path_exists, open_fails)
    ELSE Raise("ImportError", 0)

\* before the constructor has run there is no handle
InitOpen ==
    /\ store \in DayStores
    /\ _db = FALSE
    /\ ret = NoRet

NewSensorDataReader ==
    /\ ret = NoRet
    /\ ~_db
    /\ \E path_exists \in BOOLEAN, open_fails \in BOOLEAN :
         /\ ret' = [path_exists |-> path_exists, open_fails |-> open_fails]
                     @@ Call("__init__", 0, Epoch, Epoch, 0,
                             __init__(path_exists, open_fails).outcome)
         /\ _db' = __init__(path_exists, open_fails).handle
    /\ UNCHANGED store

\* a program imports the package and calls SensorDataReader(db_path) once;
\* the reader it may get is its own, not the one of this state machine
ImportSensorDaemon ==
    /\ ret = NoRet
    /\ \E pandas \in BOOLEAN, rocksdb \in BOOLEAN, rocksdb_python \in BOOLEAN,
          sensor_data_pb2 \in BOOLEAN, path_exists \in BOOLEAN, open_fails \in BOOLEAN :
         ret' = [pandas |-> pandas, rocksdb |-> rocksdb,
                 rocksdb_python |-> rocksdb_python, sensor_data_pb2 |-> sensor_data_pb2]
                  @@ sensor_daemon(reader_imports(pandas, rocksdb, sensor_data_pb2),
                                   reader_simple_imports(pandas, sensor_data_pb2))
                  @@ Call("import sensor_daemon", 0, Epoch, Epoch, 0,
                          SensorDataReader(
                              sensor_daemon(reader_imports(pandas, rocksdb, sensor_data_pb2),
                                            reader_simple_imports(pandas, sensor_data_pb2)
                                           ).SensorDataReader,
                              rocksdb_python, path_exists, open_fails))
    /\ UNCHANGED <<store, _db>>

\* a method of a reader: there is a reader once a constructor has returned
OpenedGetDatabaseInfo == _db /\ CallGetDatabaseInfo

NextOpen ==
    \/ NewSensorDataReader
    \/ ImportSensorDaemon
    \/ OpenedGetDatabaseInfo
    \/ close
    \/ ResultTaken

SpecOpen == InitOpen /\ [][NextOpen]_vars
(***************************************************************************)
(* What the claims speak of.                                               *)
(***************************************************************************)
\* a record decodes when its value parses and its key is a datetime
Decodable(entry) == entry.value.wellformed /\ TimestampOf[entry.key].ok

\* the reading a decodable record stands for
ReadingOf(entry) ==
    [timestamp |-> TimestampOf[entry.key].timestamp,
     co2_ppm |-> entry.value.co2_ppm,
     temperature_c |-> entry.value.temperature_c,
     humidity_percent |-> entry.value.humidity_percent,
     quality_flags |-> entry.value.quality_flags]
ReadingsOf(entries) == [i \in 1..Len(entries) |-> ReadingOf(entries[i])]

\* the last n elements of a sequence (all of them when it is shorter)
LastN(s, n) == SubSeq(s, IF Len(s) > n THEN Len(s) - n + 1 ELSE 1, Len(s))

\* the microsecond count of a datetime at or after the epoch, 8 bytes big-endian
ExactKeyOf ==
    [t \in Stamps |-> IF t.days >= 0 THEN PackQ(DeltaMicroseconds(t).mag) ELSE <<>>]

\* the entries a range scan covers: those from start_key to end_key
Covered(entry) ==
    /\ ~BytesLess(entry.key, ret.start_key)
    /\ ~BytesLess(ret.end_key, entry.key)

\* C1: on a store whose records all decode, a get_readings_range(start, end)
\* that returns gives exactly the readings whose key timestamp t has
\* start <= t <= end, in ascending order.
C1_RangeIsExactAndInclusive ==
    (/\ ret.op = "get_readings_range"
     /\ ret.exc = "None"
     /\ \A i \in 1..Len(store) : Decodable(store[i]))
    => ret.value =
         ReadingsOf(SelectSeq(store, LAMBDA e :
                        /\ DtLeq(ret.start, KeyTimeOf[e.key])
                        /\ DtLeq(KeyTimeOf[e.key], ret.end)))

\* C2: a get_recent_readings(n), n >= 1, that returns gives at most n readings,
\* with strictly ascending timestamps, and they are the last min(n, total)
\* readings of the store.
C2_RecentIsLastNStrictlyAscending ==
    (/\ ret.op = "get_recent_readings"
     /\ ret.count >= 1
     /\ ret.exc = "None")
    => /\ Len(ret.value) <= ret.count
       /\ \A i \in 1..(Len(ret.value) - 1) :
            DtLess(ret.value[i].timestamp, ret.value[i + 1].timestamp)
       /\ ret.value = LastN(ReadingsOf(SelectSeq(store, Decodable)), ret.count)

\* C3: with valid arguments, an open reader and no cursor fault, neither scan
\* raises whatever records fail to decode, and the result holds every decodable
\* record the scan covers and nothing for an undecodable one.
C3_DecodeFailureSkipsOneEntry ==
    /\ (/\ ret.op = "get_recent_readings"
        /\ ret.count >= 1 /\ _db /\ ~ret.faulted)
       => /\ ret.exc = "None"
          /\ ret.value = LastN(ReadingsOf(SelectSeq(store, Decodable)), ret.count)
    /\ (/\ ret.op = "get_readings_range"
        /\ DtLess(ret.start, ret.end) /\ _db /\ ~ret.faulted
        /\ ret.start.days >= 0 /\ ret.end.days >= 0)
       => /\ ret.exc = "None"
          /\ ret.value =
               ReadingsOf(SelectSeq(store, LAMBDA e : Covered(e) /\ Decodable(e)))

\* a range scan returned a reading that follows an undecodable record it covered
C3_Witness ==
    /\ ret.op = "get_readings_range"
    /\ ret.exc = "None"
    /\ \E i \in 1..Len(store) : \E j \in (i + 1)..Len(store) :
         /\ Covered(store[i]) /\ ~Decodable(store[i])
         /\ Covered(store[j]) /\ Decodable(store[j])
         /\ ret.value = <<ReadingOf(store[j])>>

\* C4: when a cursor operation raises during a scan, the call ends with a
\* RuntimeError and returns no row at all, whatever had been collected.
C4_CursorFaultGivesNoPartialResult ==
    ret.faulted =>
        /\ ret.op \in {"get_recent_readings", "get_readings_range", "get_aggregates"}
        /\ ret.exc = "RuntimeError"
        /\ ret.value = <<>>
        /\ ret.aggregated = <<>>

\* a cursor operation raised after a reading had been collected
C4_Witness ==
    /\ ret.op = "get_recent_readings"
    /\ ret.faulted
    /\ ret.collected >= 1
    /\ ret.io >= 5
    /\ ret.exc = "RuntimeError"

\* C5: get_recent_readings(count) with count <= 0 raises ValueError without a
\* single cursor operation, whether the reader is open or closed.
C5_NonPositiveCountIsValueError ==
    (ret.op = "get_recent_readings" /\ ret.count <= 0)
    => ret.exc = "ValueError" /\ ret.io = 0 /\ ~ret.faulted

\* count <= 0 on a closed reader over a store that holds records
C5_Witness ==
    /\ ret.op = "get_recent_readings"
    /\ ret.count <= 0
    /\ ~_db
    /\ store # <<>>
    /\ ret.exc = "ValueError"

\* C6: get_readings_range and get_aggregates with start >= end raise ValueError
\* without encoding a key or touching the cursor, whatever the store, the
\* reader's state and the interval.
C6_StartNotBeforeEndIsValueError ==
    (/\ ret.op \in {"get_readings_range", "get_aggregates"}
     /\ DtLeq(ret.end, ret.start))
    => /\ ret.exc = "ValueError"
       /\ ret.io = 0
       /\ ret.start_key = <<>> /\ ret.end_key = <<>>

\* start = end on a range query over a store that holds records
C6_Witness ==
    /\ ret.op = "get_readings_range"
    /\ ret.start = ret.end
    /\ ret.start.days >= 0
    /\ _db
    /\ store # <<>>
    /\ ret.exc = "ValueError"

\* C7: get_aggregates on an open reader with representable start < end and an
\* interval <= 0 raises ValueError without any cursor operation, also when the
\* range holds no reading.
C7_NonPositiveIntervalIsValueError ==
    (/\ ret.op = "get_aggregates"
     /\ _db
     /\ ret.start.days >= 0 /\ DtLess(ret.start, ret.end)
     /\ ret.interval <= 0)
    => ret.exc = "ValueError" /\ ret.io = 0

\* C8: a range or aggregate query on an open reader with start < end whose
\* start or end lies before the epoch raises ValueError without any cursor
\* operation and without a key being produced for that timestamp.
C8_PreEpochIsValueError ==
    (/\ ret.op \in {"get_readings_range", "get_aggregates"}
     /\ _db
     /\ DtLess(ret.start, ret.end)
     /\ (ret.start.days < 0 \/ ret.end.days < 0))
    => /\ ret.exc = "ValueError"
       /\ ret.io = 0
       /\ ret.start_key = <<>>

\* C9: for a timestamp at or after the epoch, the key is the 8-byte big-endian
\* microsecond count of the timestamp, and decoding the key gives the
\* timestamp back.
C9_RoundTripIsIdentity ==
    (ret.op = "timestamp_round_trip" /\ ret.start.days >= 0)
    => /\ ret.start_key = ExactKeyOf[ret.start]
       /\ ret.decoded = Some(ret.start)

\* C10: the keys of two timestamps t1 < t2 at or after the epoch (the start_key
\* and end_key of a range query) are in strict byte order.
C10_KeysStrictlyOrdered ==
    (/\ ret.op = "get_readings_range"
     /\ DtLess(ret.start, ret.end)
     /\ ret.start_key # <<>> /\ ret.end_key # <<>>)
    => BytesLess(ret.start_key, ret.end_key)

(***************************************************************************)
(* What the claims about get_aggregates speak of.                          *)
(***************************************************************************)
\* the readings of the store whose key time lies in [ret.start, ret.end]
InRange(entry) ==
    /\ DtLeq(ret.start, KeyTimeOf[entry.key])
    /\ DtLeq(KeyTimeOf[entry.key], ret.end)
RangeReadings == ReadingsOf(SelectSeq(store, LAMBDA e : Decodable(e) /\ InRange(e)))

\* seconds from the start of a bucket to a reading, rounded down
SecondsInto(row, reading) ==
    SecondsFrom(row.timestamp.days, reading.timestamp) - row.timestamp.seconds

\* the readings that fall in [bucket_start, bucket_start + interval)
BucketReadings(row) ==
    SelectSeq(RangeReadings,
              LAMBDA r : SecondsInto(row, r) >= 0 /\ SecondsInto(row, r) < ret.interval)

Fields == {"co2_ppm", "temperature_c", "humidity_percent"}

\* the four statistics a row reports for a field
Column(row, field) ==
    CASE field = "co2_ppm" ->
           [mean |-> row.co2_ppm_mean, min |-> row.co2_ppm_min,
            max |-> row.co2_ppm_max, count |-> row.co2_ppm_count]
      [] field = "temperature_c" ->
           [mean |-> row.temperature_c_mean, min |-> row.temperature_c_min,
            max |-> row.temperature_c_max, count |-> row.temperature_c_count]
      [] field = "humidity_percent" ->
           [mean |-> row.humidity_percent_mean, min |-> row.humidity_percent_min,
            max |-> row.humidity_percent_max, count |-> row.humidity_percent_count]

\* the values of a field in the readings that report it
PresentValues(readings, field) ==
    LET present == SelectSeq(readings, LAMBDA r : r[field] # None)
    IN  [i \in 1..Len(present) |-> present[i][field][1]]

\* the statistics are those of exactly these values
StatsOver(stats, vals) ==
    /\ stats.count = Len(vals)
    /\ vals = <<>> => stats.mean = None /\ stats.min = None /\ stats.max = None
    /\ vals # <<>> =>
         /\ stats.mean = <<SeqSum(vals), Len(vals)>>
         /\ \E i \in 1..Len(vals) : stats.min = Some(vals[i])
         /\ \E i \in 1..Len(vals) : stats.max = Some(vals[i])
         /\ \A i \in 1..Len(vals) : stats.min[1] <= vals[i] /\ vals[i] <= stats.max[1]

Aggregated == ret.op = "get_aggregates" /\ ret.exc = "None"

\* C11: in every bucket get_aggregates returns, each field's count is the
\* number K of readings of the bucket that report the field, and its mean, min
\* and max are those of exactly these K values, whatever the other readings of
\* the bucket and the other fields hold.
C11_StatisticsOverPresentValues ==
    Aggregated =>
        \A i \in 1..Len(ret.aggregated) : \A field \in Fields :
            StatsOver(Column(ret.aggregated[i], field),
                      PresentValues(BucketReadings(ret.aggregated[i]), field))

\* a bucket of two readings, one of which reports no co2_ppm
C11_Witness ==
    /\ Aggregated
    /\ \E i \in 1..Len(ret.aggregated) :
         /\ Len(BucketReadings(ret.aggregated[i])) = 2
         /\ ret.aggregated[i].co2_ppm_count = 1
         /\ ret.aggregated[i].temperature_c_count = 2
         /\ ret.aggregated[i].humidity_percent_count = 1

\* C12: no row get_aggregates returns has count 0 in every field: a bucket in
\* which no reading reported anything is left out, also when it lies between
\* two buckets that hold readings.
C12_EmptyBucketsSuppressed ==
    Aggregated =>
        \A i \in 1..Len(ret.aggregated) :
            \E field \in Fields : Column(ret.aggregated[i], field).count > 0

\* the seconds from the Unix epoch to a datetime, modulo the interval
EpochSecondsMod(t, interval) ==
    ((t.days % interval) * (SecondsPerDay % interval) + t.seconds) % interval

\* C13: every bucket start get_aggregates returns is a whole number of
\* intervals after the Unix epoch, for intervals that divide a day and for
\* those that do not, whatever the day and time of the first reading.
C13_BucketsEpochAligned ==
    (Aggregated /\ ret.interval > 0) =>
        \A i \in 1..Len(ret.aggregated) :
            /\ ret.aggregated[i].timestamp.microseconds = 0
            /\ EpochSecondsMod(ret.aggregated[i].timestamp, ret.interval) = 0

\* the bucket starts of a result
Starts(rows) == {rows[i].timestamp : i \in 1..Len(rows)}

\* the start of the bucket of a result that a reading falls in
StartsHolding(rows, reading, interval) ==
    {rows[i].timestamp : i \in {j \in 1..Len(rows) :
        /\ SecondsInto(rows[j], reading) >= 0
        /\ SecondsInto(rows[j], reading) < interval}}

\* the readings of the store from ret.start to t1
ReadingsUpTo(t1) ==
    ReadingsOf(SelectSeq(store, LAMBDA e :
        /\ Decodable(e)
        /\ DtLeq(ret.start, KeyTimeOf[e.key]) /\ DtLeq(KeyTimeOf[e.key], t1)))

\* the buckets of the query [t0, t1], given as short, lie on the boundaries of
\* the buckets of the query [t0, t2], given as long
SameBoundaries(short, long, t1, interval) ==
    /\ short.exc = "None"
    /\ Starts(short.aggregated) \subseteq Starts(long.aggregated)
    /\ \A k \in 1..Len(ReadingsUpTo(t1)) :
         /\ StartsHolding(short.aggregated, ReadingsUpTo(t1)[k], interval) # {}
         /\ StartsHolding(short.aggregated, ReadingsUpTo(t1)[k], interval)
              = StartsHolding(long.aggregated, ReadingsUpTo(t1)[k], interval)

C15_EmptyIsNotAnError ==
    (_db /\ ~ret.faulted) =>
        /\ (/\ ret.op = "get_recent_readings" /\ ret.count >= 1
            /\ SelectSeq(store, Decodable) = <<>>)
           => ret.exc = "None" /\ ret.value = <<>>
        /\ (/\ ret.op = "get_readings_range" /\ DtLess(ret.start, ret.end)
            /\ RangeReadings = <<>>)
           => ret.exc = "None" /\ ret.value = <<>>
        /\ (/\ ret.op = "get_aggregates" /\ DtLess(ret.start, ret.end)
            /\ ret.interval > 0 /\ RangeReadings = <<>>)
           => ret.exc = "None" /\ ret.value = <<>> /\ ret.aggregated = <<>>
        /\ (ret.op = "get_database_info" /\ store = <<>>)
           => /\ ret.exc = "None"
              /\ ret.value = database_info(no_records, None, None)

\* an aggregate query over a part of the afternoon without readings, on a
\* store that holds readings of another part, returned
C15_Witness ==
    /\ ret.op = "get_aggregates"
    /\ _db /\ ~ret.faulted
    /\ store # <<>>
    /\ RangeReadings = <<>>
    /\ ret.exc = "None"
    /\ ret.aggregated = <<>>

\* the rows whose window [bucket_start, bucket_start + interval) holds a reading
RowsHolding(reading) ==
    {i \in 1..Len(ret.aggregated) :
        /\ SecondsInto(ret.aggregated[i], reading) >= 0
        /\ SecondsInto(ret.aggregated[i], reading) < ret.interval}

\* C16: the buckets get_aggregates returns are the half-open windows
\* [bucket_start, bucket_start + interval): they do not overlap, every reading
\* of the range lies in the window of exactly one row (one on a boundary in
\* the row that starts there), and each field of a row has the count, mean,
\* min and max of the values present in the readings of its window, mean, min
\* and max being undefined when the count is 0.
C16_BucketsAreHalfOpenWindows ==
    (Aggregated /\ ret.interval > 0) =>
        /\ \A i \in 1..Len(ret.aggregated) : \A j \in (i + 1)..Len(ret.aggregated) :
             SecondsFrom(ret.aggregated[i].timestamp.days, ret.aggregated[j].timestamp)
               - ret.aggregated[i].timestamp.seconds >= ret.interval
        /\ \A k \in 1..Len(RangeReadings) :
             Cardinality(RowsHolding(RangeReadings[k])) = 1
        /\ \A i \in 1..Len(ret.aggregated) : \A field \in Fields :
             /\ StatsOver(Column(ret.aggregated[i], field),
                          PresentValues(BucketReadings(ret.aggregated[i]), field))
             /\ Column(ret.aggregated[i], field).count = 0
                  => Column(ret.aggregated[i], field).mean = None

\* the readings 10 at 12:00:00, 20 at 12:00:30 and none at 13:05:00, asked for
\* by the hour from 12:00:00 to 13:05:00: mean 15 (30 / 2), min 10, max 20,
\* count 2 for [12:00, 13:00) and count 0 for [13:00, 14:00)
C16_Witness ==
    /\ Aggregated
    /\ store = <<[key |-> Key2024, value |-> Value10],
                 [key |-> Key1200a, value |-> Value20],
                 [key |-> Key1305, value |-> ValueNoCo2]>>
    /\ ret.start = Noon2024 /\ ret.end = T1305 /\ ret.interval = 3600
    /\ Len(ret.aggregated) = 2
    /\ ret.aggregated[1].timestamp = Noon2024
    /\ ret.aggregated[1].co2_ppm_mean = <<30, 2>>
    /\ ret.aggregated[1].co2_ppm_min = Some(10)
    /\ ret.aggregated[1].co2_ppm_max = Some(20)
    /\ ret.aggregated[1].co2_ppm_count = 2
    /\ ret.aggregated[2].timestamp = DT(19723, 46800, 0)
    /\ ret.aggregated[2].co2_ppm_count = 0
    /\ ret.aggregated[2].co2_ppm_mean = None
    /\ ret.aggregated[2].temperature_c_count = 1

\* the counts a result reports for a field, row by row
BucketCounts(rows, field) == [i \in 1..Len(rows) |-> Column(rows[i], field).count]

\* the result lists what the frame holds: the same error if any, and for each
\* field as many values as the readings of the frame report
AggregatesTheFrame(df) ==
    /\ ret.exc = df.exc
    /\ ret.exc = "None" =>
         /\ df.value = RangeReadings
         /\ \A field \in Fields :
              SeqSum(BucketCounts(ret.aggregated, field))
                = Len(PresentValues(df.value, field))

\* C17: what get_aggregates(start, end, interval) gives, interval > 0, when no
\* cursor operation fails, is determined by what get_readings_range(start,
\* end) gives on the same reader: it raises when that raises, and otherwise
\* for every field the counts of its buckets add up to the number of readings
\* returned by get_readings_range that report the field, these readings being
\* the ones of the store in [start, end] and no other.
C17_AggregatesOfTheRangeScan ==
    (ret.op = "get_aggregates" /\ ret.interval > 0 /\ ~ret.faulted) =>
        AggregatesTheFrame(get_readings_range(ret.start, ret.end, 0))

\* a store with readings inside and outside the range, aggregated
C17_Witness ==
    /\ Aggregated
    /\ Len(store) = 3
    /\ Len(RangeReadings) = 2
    /\ Len(ret.aggregated) >= 1
    /\ SeqSum(BucketCounts(ret.aggregated, "temperature_c")) = 2
    /\ get_readings_range(ret.start, ret.end, 0).value = RangeReadings

\* the calls of it.next() a get_database_info that returned has made: of its
\* ret.io cursor operations, seven precede the counting loop, which then asks
\* it.valid() once more than it steps
Advances == (ret.io - 8) \div 2

\* C18: get_database_info on an open reader over a store that is not empty,
\* when no cursor operation fails, returns the timestamp of the smallest key
\* as earliest_timestamp and that of the largest key as latest_timestamp; it
\* steps the cursor at most CountLimit (10000) times; total_records is the
\* number of entries when that is below CountLimit and "10000+" otherwise, and
\* the number in it never exceeds the number of entries.
C18_DatabaseInfoIsBounded ==
    (/\ ret.op = "get_database_info"
     /\ _db /\ ~ret.faulted
     /\ store # <<>>)
    => /\ ret.exc = "None"
       /\ \A i \in 1..Len(store) :
            /\ ~BytesLess(store[i].key, store[1].key)
            /\ ~BytesLess(store[Len(store)].key, store[i].key)
       /\ ret.value.earliest_timestamp = Some(KeyTimeOf[store[1].key])
       /\ ret.value.latest_timestamp = Some(KeyTimeOf[store[Len(store)].key])
       /\ Advances <= CountLimit
       /\ ret.value.total_records.records <= Len(store)
       /\ Len(store) < CountLimit
            => ret.value.total_records = [records |-> Len(store), plus |-> FALSE]
       /\ Len(store) >= CountLimit
            => ret.value.total_records = [records |-> CountLimit, plus |-> TRUE]

\* a store of more than CountLimit entries was counted up to CountLimit
C18_Witness ==
    /\ ret.op = "get_database_info"
    /\ ret.exc = "None"
    /\ Len(store) > CountLimit
    /\ Advances = CountLimit
    /\ ret.value.total_records = [records |-> CountLimit, plus |-> TRUE]
    /\ ret.value.earliest_timestamp = Some(Noon2024)
    /\ ret.value.latest_timestamp = Some(T1500)

ScanCommands == {"recent", "range", "aggregate"}
SimpleScans ==
    {"simple.get_recent_readings", "simple.get_readings_range", "simple.get_aggregates"}

C20_OpeningFailsAsAWhole ==
    ret.op = "__init__" =>
       /\ ~ret.path_exists
            => ret.exc = "FileNotFoundError" /\ ret.io = 0
       /\ (ret.path_exists /\ ret.open_fails) => ret.exc = "RuntimeError"
       /\ (ret.path_exists /\ ~ret.open_fails) => ret.exc = "None"
       /\ ret.exc # "None" => ret.value = None /\ ~_db
       /\ ret.exc = "None" => ret.value = Some("SensorDataReader") /\ _db

\* the path does not exist: FileNotFoundError, nothing opened, no reader
C20_Witness ==
    /\ ret.op = "__init__"
    /\ ~ret.path_exists
    /\ ret.exc = "FileNotFoundError"
    /\ ret.io = 0
    /\ ret.value = None
    /\ ~_db

\* the arguments of the call pass the checks the method makes itself
ValidArguments ==
    /\ ret.op = "get_recent_readings" => ret.count >= 1
    /\ ret.op \in {"get_readings_range", "get_aggregates"} => DtLess(ret.start, ret.end)

\* C21: get_recent_readings, get_readings_range, get_aggregates and
\* get_database_info, called with valid arguments on a closed reader, or when
\* self._db.iteritems() raises, end with RuntimeError and return nothing; on a
\* closed reader no cursor operation is made.
C21_NoCursorIsStoreError ==
    (/\ ret.op \in {"get_recent_readings", "get_readings_range", "get_aggregates",
                    "get_database_info"}
     /\ ValidArguments
     /\ (~_db \/ (ret.faulted /\ ret.io = 1)))
    => /\ ret.exc = "RuntimeError"
       /\ ret.value = <<>>
       /\ ret.aggregated = <<>>
       /\ ~_db => ret.io = 0

\* get_database_info on a closed reader over a store that holds records
C21_Witness ==
    /\ ret.op = "get_database_info"
    /\ ~_db
    /\ store # <<>>
    /\ ret.exc = "RuntimeError"
    /\ ret.io = 0

\* C22: is_daemon_running raises for none of TimeoutExpired, FileNotFoundError
\* and SubprocessError, on an open or a closed reader.  When the systemctl
\* probe completes, the answer is True exactly for return code 0 with output
\* 'active', and pgrep is not run; when the systemctl probe raised, pgrep is
\* run and the answer is True exactly when it completes with return code 0,
\* and False when it raised as well.
C22_DaemonProbeNeverRaises ==
    ret.op = "is_daemon_running" =>
       /\ ret.exc = "None"
       /\ ret.systemctl.raised = "None"
            => /\ ret.value = Some(ret.systemctl.returncode = 0
                                     /\ ret.systemctl.stdout = "active")
               /\ ret.probes = 1
       /\ ret.systemctl.raised # "None"
            => /\ ret.probes = 2
               /\ ret.value = Some(ret.pgrep.raised = "None" /\ ret.pgrep.returncode = 0)

\* systemctl answered 'inactive' while pgrep would have found a process
C22_Witness ==
    /\ ret.op = "is_daemon_running"
    /\ ret.systemctl.raised = "None"
    /\ ret.systemctl.returncode = 3
    /\ ret.systemctl.stdout = "inactive"
    /\ ret.pgrep.raised = "None"
    /\ ret.pgrep.returncode = 0
    /\ ret.value = Some(FALSE)
    /\ ret.probes = 1

\* C23: main, for arguments the parser has accepted, returns 0 or 1: 0 exactly
\* when a command was given, the reader was constructed and the command
\* returned; 1 when no command was given; 1, with "Error: ..." on stderr, when
\* the constructor or the command raised; and a reader that was constructed
\* has been closed when main returns, whether the command returned or raised.
C23_MainExitCode ==
    ret.op = "main" =>
       /\ ret.exit \in {0, 1}
       /\ ret.exit = 0 <=> (/\ ret.command # ""
                            /\ ret.entered
                            /\ ~ret.command_raises)
       /\ ret.command = "" => ret.exit = 1 /\ ~ret.constructed
       /\ (ret.constructed /\ (ret.construct_raises \/ ret.command_raises))
            => ret.exit = 1 /\ ret.stderr = "Error"
       /\ ret.entered <=> (ret.constructed /\ ~ret.construct_raises)
       /\ ret.entered <=> ret.closed

\* the info command raised on a constructed reader
C23_Witness ==
    /\ ret.op = "main"
    /\ ret.command = "info"
    /\ ret.entered
    /\ ret.command_raises
    /\ ret.closed
    /\ ret.exit = 1
    /\ ret.stderr = "Error"

\* C24: whichever of pandas, rocksdb, rocksdb_python and the protobuf
\* bindings can be imported, the package binds SensorDataReader to exactly one
\* of the full reader, the point-only reader and the stub:
\* FULL_IMPLEMENTATION_AVAILABLE is True, and the name is the full reader,
\* exactly when reader.py imports; otherwise it is the point-only reader or
\* the stub; and when neither rocksdb nor rocksdb_python can be imported,
\* SensorDataReader(db_path) raises ImportError and gives no reader, whether
\* or not the path exists.
C24_BackendSelection ==
    ret.op = "import sensor_daemon" =>
       /\ ret.FULL_IMPLEMENTATION_AVAILABLE
            <=> (ret.pandas /\ ret.rocksdb /\ ret.sensor_data_pb2)
       /\ ret.FULL_IMPLEMENTATION_AVAILABLE
            <=> ret.SensorDataReader = "reader.SensorDataReader"
       /\ ~ret.FULL_IMPLEMENTATION_AVAILABLE
            => ret.SensorDataReader \in {"reader_simple.SimpleSensorDataReader", "stub"}
       /\ (~ret.rocksdb /\ ~ret.rocksdb_python)
            => ret.exc = "ImportError" /\ ret.value = None /\ ret.io = 0

\* neither binding can be imported, pandas and the protobuf bindings can: the
\* name is bound to the point-only reader, whose constructor raises ImportError
C24_Witness ==
    /\ ret.op = "import sensor_daemon"
    /\ ~ret.rocksdb /\ ~ret.rocksdb_python
    /\ ret.pandas /\ ret.sensor_data_pb2
    /\ ~ret.FULL_IMPLEMENTATION_AVAILABLE
    /\ ret.SensorDataReader = "reader_simple.SimpleSensorDataReader"
    /\ ret.exc = "ImportError"

\* the loop iterations of a scan that returned: a scan makes two cursor
\* operations before its loop, three in every iteration (valid, item, and prev
\* or next) and one or two when it leaves the loop (valid, or valid and item)
Iterations == (ret.io - 3) \div 3
LeftAtBreak == (ret.io - 3) % 3 = 1
\* the entries a backward walk of that many iterations has visited
Visited == SubSeq(store, Len(store) - Iterations + 1, Len(store))

\* C25: a scan that returns has made at most one loop iteration, and so one
\* cursor step, for each entry of the store, corrupt entries included.
\* get_recent_readings has visited the last entries of the store, one per
\* iteration, and has stopped before the first entry only because count
\* readings were collected, the last entry visited being the one that
\* completed them.  get_readings_range has made one iteration for each entry
\* from start_key to end_key and has left the loop at the first key greater
\* than end_key, if there is one.
C25_ScansTerminate ==
    /\ (/\ ret.op = "get_recent_readings"
        /\ ret.exc = "None" /\ ~ret.faulted)
       => /\ (ret.io - 3) % 3 = 0
          /\ Iterations \in 0..Len(store)
          /\ Len(SelectSeq(Visited, Decodable)) = Len(ret.value)
          /\ Iterations < Len(store) => Len(ret.value) = ret.count
          /\ (Iterations >= 1 /\ Len(ret.value) = ret.count) => Decodable(Visited[1])
    /\ (/\ ret.op = "get_readings_range"
        /\ ret.exc = "None" /\ ~ret.faulted)
       => /\ Iterations \in 0..Len(store)
          /\ Iterations = Len(SelectSeq(store, Covered))
          /\ LeftAtBreak <=> \E i \in 1..Len(store) :
                                /\ ~BytesLess(store[i].key, ret.start_key)
                                /\ BytesLess(ret.end_key, store[i].key)

\* one reading was asked for and two entries were visited, the last entry of
\* the store being corrupt
C25_Witness ==
    /\ ret.op = "get_recent_readings"
    /\ ret.exc = "None"
    /\ ret.count = 1
    /\ Len(store) = MaxStore
    /\ ~Decodable(store[Len(store)])
    /\ Iterations = 2
    /\ Len(ret.value) = 1

\* C26: the rows get_aggregates returns have strictly ascending bucket starts
\* (so no two rows share one), and the readings get_recent_readings and
\* get_readings_range return have non-decreasing timestamps, also when corrupt
\* records were skipped.
C26_ResultsAreOrdered ==
    /\ (ret.op = "get_aggregates" /\ ret.exc = "None")
       => \A i \in 1..(Len(ret.aggregated) - 1) :
             DtLess(ret.aggregated[i].timestamp, ret.aggregated[i + 1].timestamp)
    /\ (ret.op \in {"get_recent_readings", "get_readings_range"} /\ ret.exc = "None")
       => \A i \in 1..(Len(ret.value) - 1) :
             DtLeq(ret.value[i].timestamp, ret.value[i + 1].timestamp)

\* two readings returned by get_recent_readings around a corrupt record
C26_Witness ==
    /\ ret.op = "get_recent_readings"
    /\ ret.exc = "None"
    /\ Len(store) = 3
    /\ Decodable(store[1]) /\ ~Decodable(store[2]) /\ Decodable(store[3])
    /\ ret.value = <<ReadingOf(store[1]), ReadingOf(store[3])>>
    /\ DtLess(ret.value[1].timestamp, ret.value[2].timestamp)

\* C27: when a with block on the reader is left, by its end or by an
\* exception, the reader is closed and the exception, if any, is still the
\* outcome the caller sees; a step taken on a closed reader, a second close()
\* included, leaves it closed; and a call of a store-reading method made on a
\* closed reader has failed.
C27_ReaderLifecycle ==
    /\ [][/\ (ret'.op = "__exit__" /\ ret.op # "__exit__")
              => (~_db' /\ ret'.exc = ret.exc /\ ret'.value = ret.value)
          /\ ~_db => ~_db']_vars
    /\ []((/\ ~_db
           /\ ret.op \in {"get_recent_readings", "get_readings_range",
                           "get_aggregates", "get_database_info"})
          => ret.exc \in {"RuntimeError", "ValueError"})

\* a with block was left by the RuntimeError of a cursor fault: the reader is
\* closed and the exception is on its way to the caller
C27_Witness ==
    /\ ret.op = "__exit__"
    /\ ret.exc = "RuntimeError"
    /\ ret.faulted
    /\ ~_db

\* the decodable records of the store, in key order
DecodableRecords == SelectSeq(store, Decodable)

\* C28: get_recent_readings(n), n >= 1, on an open reader without a cursor
\* fault returns min(n, D) readings, D being the number of decodable records
\* of the store; they are the readings of the last min(n, D) decodable
\* records, however many corrupt records lie between them; and when it returns
\* fewer than n, it has visited every entry of the store.
C28_CorruptRecordsUseNoQuota ==
    (/\ ret.op = "get_recent_readings"
     /\ ret.count >= 1 /\ _db /\ ~ret.faulted)
    => /\ ret.exc = "None"
       /\ Len(ret.value) = IF ret.count < Len(DecodableRecords)
                           THEN ret.count ELSE Len(DecodableRecords)
       /\ \A i \in 1..Len(ret.value) :
            ret.value[i] = ReadingOf(DecodableRecords[Len(DecodableRecords)
                                                       - Len(ret.value) + i])
       /\ Len(ret.value) < ret.count => Iterations = Len(store)

\* two readings were asked for and returned, from the first and the last of
\* three entries, the one in between being corrupt
C28_Witness ==
    /\ ret.op = "get_recent_readings"
    /\ ret.exc = "None"
    /\ ret.count = 2
    /\ Len(store) = 3
    /\ Decodable(store[1]) /\ ~Decodable(store[2]) /\ Decodable(store[3])
    /\ Len(ret.value) = 2
    /\ Iterations = 3
    /\ Iterations > ret.count

\* the readings of two scans that meet at m make up the readings of the scan
\* over both: joined, the second without what the first already holds, they
\* are that scan's readings; at most one reading is in both, and its
\* timestamp is m
SplitsAt(left, right, whole, m) ==
    /\ whole = left \o SelectSeq(right, LAMBDA r : \A i \in 1..Len(left) : left[i] # r)
    /\ Cardinality({j \in 1..Len(right) : \E i \in 1..Len(left) : left[i] = right[j]}) <= 1
    /\ \A i \in 1..Len(left) : \A j \in 1..Len(right) :
          left[i] = right[j] => left[i].timestamp = m

\* C29: for s < m < e at or after the epoch, on an open reader without cursor
\* fault, get_readings_range(s, m) followed by get_readings_range(m, e) holds
\* every reading of get_readings_range(s, e), in order, and a reading that is
\* in both parts is the only one and has the timestamp m.
C29_SplitRangeLosesNothing ==
    (/\ ret.op = "get_readings_range"
     /\ ret.exc = "None" /\ _db /\ ~ret.faulted)
    => \A e \in Stamps \cup {T2038c} :
          DtLess(ret.end, e)
          => SplitsAt(ret.value,
                      get_readings_range(ret.end, e, 0).value,
                      get_readings_range(ret.start, e, 0).value,
                      ret.end)

\* the timestamps of a scan's readings lie between the two of the info
Within(readings, info) ==
    \A i \in 1..Len(readings) :
        /\ info.earliest_timestamp # None /\ info.latest_timestamp # None
        /\ DtLeq(info.earliest_timestamp[1], readings[i].timestamp)
        /\ DtLeq(readings[i].timestamp, info.latest_timestamp[1])

\* what get_recent_readings(n) returns of the store, against the info
RecentWithin(n, info) ==
    /\ Len(get_recent_readings(n, 0).value) <= info.total_records.records
    /\ n >= info.total_records.records
         => (Len(get_recent_readings(n, 0).value) = info.total_records.records
               <=> \A i \in 1..Len(store) : Decodable(store[i]))
    /\ Within(get_recent_readings(n, 0).value, info)

\* C30: on an open reader without cursor fault over a store of fewer than
\* CountLimit entries, get_database_info returns total_records equal to the
\* number of entries, corrupt ones included; get_recent_readings(n) returns at
\* most that many readings for every n, and for n >= total_records exactly
\* that many if and only if no record is corrupt; the timestamp of every
\* reading that get_recent_readings or get_readings_range returns lies
\* between earliest_timestamp and latest_timestamp.
C30_InfoCountsEveryEntry ==
    (/\ ret.op = "get_database_info"
     /\ _db /\ ~ret.faulted
     /\ Len(store) < CountLimit)
    => /\ ret.exc = "None"
       /\ ret.value.total_records = [records |-> Len(store), plus |-> FALSE]
       /\ \A n \in 1..(Len(store) + 1) : RecentWithin(n, ret.value)
       /\ \A start \in DayStamps \cup Stamps : \A end \in DayStamps \cup Stamps :
            Within(get_readings_range(start, end, 0).value, ret.value)

\* the info of a store of three entries, one of them corrupt, of which
\* get_recent_readings(3) returns two readings
C30_Witness ==
    /\ ret.op = "get_database_info"
    /\ ret.exc = "None"
    /\ ret.value.total_records = [records |-> 3, plus |-> FALSE]
    /\ \E i \in 1..Len(store) : ~Decodable(store[i])
    /\ Len(get_recent_readings(3, 0).value) = 2
    /\ get_recent_readings(3, 0).value # <<>>
====
